---- MODULE Spec2Model ----
(***************************************************************************)
(* A model of the streaming gateway of src/mlx/server-python-direct.py:    *)
(* the ready/busy gate, the three generation handlers (/chat, /completion, *)
(* /chat/ws) with their incremental decoder, the log buffer with its       *)
(* /logs/stream subscribers, and the metrics snapshot.                     *)
(*                                                                         *)
(* The server is one asyncio event loop.  A task runs without interruption *)
(* until it reaches an await (or, for an async generator, a yield); the    *)
(* variable `running` names the task that is in the middle of synchronous  *)
(* code, and no other task takes a step while it is set.                   *)
(***************************************************************************)
EXTENDS Integers, Sequences, FiniteSets, TLC

(***************************************************************************)
(* Bounds of the model                                                     *)
(***************************************************************************)
\* number of generation requests that arrive
NumReqs == 2
\* largest max_tokens / n_predict a request carries in the gate specifications
MaxTokens == 1
\* largest max_tokens / n_predict a request carries in the decoder specification
MaxDecodeTokens == 3
\* largest max_tokens / n_predict of the longer of two concurrent streams
MaxStreamTokens == 2
\* token ids are 0..MaxTokenId
MaxTokenId == 2
\* longest plain text the tokenizer returns in the decoder specification
MaxTextLen == 2
\* appends explored by the log-bound specification (past the capacity)
MaxAppends == 1002
\* direct broadcast_log calls explored next to the log subscribers
MaxLive == 2
\* largest elapsed time read by a metrics snapshot
MaxElapsed == 1
\* number of /logs/stream subscribers
NumSubs == 1
\* number of /metrics/stream subscribers
NumMSubs == 2
\* wake-ups of a /metrics/stream handler that are explored
MaxWakeups == 2
\* the loader logs its progress only among the first MaxProgress lines
MaxProgress == 2
\* lines the engine reads from its standard input
MaxLines == 2
\* largest max_tokens of a request to the engine
MaxEngineTokens == 2

(***************************************************************************)
(* Program constants                                                       *)
(***************************************************************************)
\* broadcast_log keeps the most recent 1000 lines
LOG_CAP == 1000
\* logs_stream sends log_messages[-100:] as the backlog
BACKLOG == 100

\* request_queue is created empty and no code ever appends to it
request_queue == <<>>

(***************************************************************************)
(* Text: a string is a sequence of one-character strings                   *)
(***************************************************************************)
Alphabet == {"a", "b"}

RECURSIVE SeqsUpTo(_, _)
SeqsUpTo(S, n) ==
    IF n = 0 THEN {<<>>}
    ELSE LET shorter == SeqsUpTo(S, n - 1)
         IN  shorter \cup {Append(s, c) : s \in {t \in shorter : Len(t) = n - 1}, c \in S}

\* What tokenizer.decode may return in the decoder specification: every plain
\* text up to MaxTextLen, and texts with <|...|> markup, whole and cut short.
DecoderTexts ==
    SeqsUpTo(Alphabet, MaxTextLen)
        \cup {<<"<", "|">>,
              <<"<", "|", "|", ">">>,
              <<"a", "<", "|", "|", ">">>,
              <<"a", "<", "|", "a", "|", ">", "b">>}
\* the same, and a text with markup inside markup
NestedTexts ==
    DecoderTexts \cup {<<"<", "<", "|", "|", ">", "|", "|", ">", "a">>}
\* what tokenizer.decode may return in the gate specification
GateTexts == {<<>>, <<"a">>}

\* str.startswith
StartsWith(s, p) == Len(p) <= Len(s) /\ SubSeq(s, 1, Len(p)) = p

\* index of the first ">" of s at or after position j, 0 when there is none
RECURSIVE FirstGt(_, _)
FirstGt(s, j) ==
    IF j > Len(s) THEN 0
    ELSE IF s[j] = ">" THEN j
    ELSE FirstGt(s, j + 1)

\* end of the match of <\|[^>]*\|> that starts at position i of s, 0 when none:
\* "<" "|" , then characters other than ">" , then "|" ">"
MatchEnd(s, i) ==
    IF i + 1 <= Len(s) /\ s[i] = "<" /\ s[i + 1] = "|"
    THEN LET j == FirstGt(s, i + 2)
         IN  IF j >= i + 3 /\ s[j - 1] = "|" THEN j ELSE 0
    ELSE 0

\* re.sub(r'<\|[^>]*\|>', '', s): leftmost non-overlapping matches removed
RECURSIVE StripFrom(_, _)
StripFrom(s, i) ==
    IF i > Len(s) THEN <<>>
    ELSE LET e == MatchEnd(s, i)
         IN  IF e > 0 THEN StripFrom(s, e + 1)
             ELSE <<s[i]>> \o StripFrom(s, i + 1)

StripSpecial(s) == StripFrom(s, 1)

\* p in s
Contains(s, p) ==
    \E i \in 1 .. Len(s) - Len(p) + 1 : SubSeq(s, i, i + Len(p) - 1) = p

(***************************************************************************)
(* Tokens                                                                  *)
(***************************************************************************)
TokenIds == 0 .. MaxTokenId
\* tokenizer.eos_token_id: the last id of the vocabulary
eos_token_id == MaxTokenId
\* the stop string of a /completion request whose stop list is not empty
StopString == <<"b">>
\* a stop string whose encoding starts with the end-of-sequence id
EosString == <<"e">>
\* an element of the stop list that tokenizer.encode does not turn into ids:
\* it raises on a JSON number, and [0] raises on an encoding without ids
Unencodable == <<"7">>
\* tokenizer.encode(s): the ids of s, StopString's starting with id 0, or a
\* failure
encode(s) ==
    IF s = StopString THEN [ok |-> TRUE, ids |-> <<0, 1>>]
    ELSE IF s = EosString THEN [ok |-> TRUE, ids |-> <<eos_token_id>>]
    ELSE [ok |-> FALSE, ids |-> <<>>]
\* stop_tokens = [tokenizer.encode(s)[0] for s in stop if s] inside
\* try/except: the first token id of each non-empty element, and no id at
\* all when the encoding of any of them fails
StopTokens(stop) ==
    LET kept == {i \in 1 .. Len(stop) : stop[i] # <<>>}
    IN  IF \E i \in kept : ~encode(stop[i]).ok THEN {}
        ELSE {encode(stop[i]).ids[1] : i \in kept}
\* the stop lists of the requests: none, [StopString], [EosString]
StopChoices == {<<>>, <<StopString>>, <<EosString>>}
\* more stop lists: an empty string in the list, an element that is not
\* encoded beside StopString
StopLists ==
    StopChoices \cup {<< <<>>, StopString >>, <<StopString, Unencodable>>}

Endpoints == {"chat", "completion", "ws"}
Reqs == 1 .. NumReqs

VARIABLES
    ready,                  \* global ready
    lpc,                    \* position of load_model_async
    processing,             \* global processing
    tokens_generated,       \* global tokens_generated
    tokens_generated_total, \* global tokens_generated_total
    generation_start_time,  \* global generation_start_time: "None" or "set"
    log_messages,           \* global log_messages
    log_total,              \* number of lines ever appended (numbers the lines)
    log_calls,              \* number of LogCall steps taken
    req,                    \* the generation requests and their handlers' locals
    running,                \* the task that holds the event loop, if any
    snapshot,               \* the last metrics snapshot computed
    log_websockets,         \* global log_websockets
    sub,                    \* the /logs/stream handlers and their locals
    bpass,                  \* the broadcast pass of broadcast_log_async
    metrics_websockets,     \* global metrics_websockets
    msub,                   \* the /metrics/stream handlers and their locals
    sampling,               \* a request's sampling options and how they were read
    engine                  \* the stdin/stdout engine process

vars == <<ready, lpc, processing, tokens_generated, tokens_generated_total,
          generation_start_time, log_messages, log_total, log_calls, req,
          running, snapshot, log_websockets, sub, bpass, metrics_websockets,
          msub, sampling, engine>>

loadVars == <<ready, lpc>>
counterVars == <<tokens_generated, tokens_generated_total, generation_start_time>>
logVars == <<log_messages, log_total>>
subVars == <<log_websockets, sub, bpass, log_calls>>
\* what only the /metrics/stream handlers and the reading of the sampling
\* options touch
auxVars == <<metrics_websockets, msub, sampling, engine>>

(***************************************************************************)
(* Tasks of the event loop                                                 *)
(***************************************************************************)
NoTask == [kind |-> "none", id |-> 0]
ReqTask(r) == [kind |-> "req", id |-> r]
LoaderTask == [kind |-> "loader", id |-> 0]

\* a task is resumed by the loop only when no task is in synchronous code
Idle == running = NoTask

\* The server accepts connections once the lifespan start-up is over; the
\* loader task created there (line 187) has by then run to its first sleep.
Serving == lpc # "init"

(***************************************************************************)
(* The log buffer                                                          *)
(***************************************************************************)
\* a log line: its text (abstracted to its kind) and its number in append order
Line(n, text) == [id |-> n, text |-> text]

\* broadcast_log with the pop at the wrong end: a plausible slip
broadcast_log_pop_last(log, line) ==
    LET l == Append(log, line)
    IN  IF Len(l) > LOG_CAP THEN SubSeq(l, 1, Len(l) - 1) ELSE l

\* broadcast_log: append, then drop the oldest line when over capacity
broadcast_log(log, line) ==
    LET l == Append(log, line)
    IN  IF Len(l) > LOG_CAP THEN Tail(l) ELSE l

\* consecutive broadcast_log calls, the first line numbered n + 1
RECURSIVE LogAll(_, _, _)
LogAll(log, n, texts) ==
    IF texts = <<>> THEN log
    ELSE LogAll(broadcast_log(log, Line(n + 1, Head(texts))), n + 1, Tail(texts))

\* the calling task appends these lines
LogLines(texts) ==
    /\ log_messages' = LogAll(log_messages, log_total, texts)
    /\ log_total' = log_total + Len(texts)

(***************************************************************************)
(* Generation requests                                                     *)
(***************************************************************************)
Ev(type, text, reason) == [type |-> type, text |-> text, reason |-> reason]
NoEvent == Ev("none", <<>>, "")
TokenEv(text) == Ev("token", text, "")
DoneEv == Ev("done", <<>>, "")
StopEv(reason) == Ev("stop", <<>>, reason)
ErrorEv == Ev("error", <<>>, "")

InitReq ==
    [ep |-> "none",               \* the endpoint the request came to
     pc |-> "new",                \* where its handler is
     status |-> "none",           \* how the handler answered
     max_tokens |-> 0,            \* max_tokens / n_predict
     stop |-> <<>>,               \* stop, the list of the body (/completion)
     stop_tokens |-> {},          \* stop_tokens (/completion)
     token_count |-> 0,           \* token_count
     accumulated_tokens |-> <<>>, \* accumulated_tokens
     previous_full_text |-> <<>>, \* previous_full_text
     out |-> NoEvent,             \* the event being yielded or sent
     events |-> <<>>,             \* the events delivered on its stream
     produced |-> <<>>,           \* the non-empty deltas its decoder produced
     admitted |-> FALSE,          \* the handler has set processing = True
     saw_processing |-> FALSE,    \* processing as the handler's gate check read it
     steps |-> 0,                 \* backend steps run for it
     decode_ok |-> TRUE,          \* decode of accumulated_tokens did not raise
     last_decode |-> <<>>]        \* stripped decode of accumulated_tokens

IsSSE(ep) == ep \in {"chat", "completion"}

\* the handler of q has returned with this answer: its locals are gone, what
\* the client saw stays
Closed(q, status, events) ==
    [InitReq EXCEPT !.ep = q.ep, !.pc = "closed", !.status = status,
                    !.events = events, !.produced = q.produced,
                    !.admitted = q.admitted,
                    !.saw_processing = q.saw_processing]

\* the handler of r may take its next synchronous step
CanRun(r) == running = NoTask \/ running = ReqTask(r)

\* r is inside its token loop (between two backend steps or sending a token)
InTokenLoop(r) == req[r].pc \in {"loop", "y_tok"}

\* the gate check without its ready test: a plausible slip
GateCheckNoLoading(rdy, proc) ==
    IF proc THEN "busy" ELSE "pass"

\* the gate check without its busy test: a plausible slip
GateCheckNoBusy(rdy, proc) ==
    IF ~rdy THEN "loading" ELSE "pass"

\* The gate check: `if not ready` answers loading, `if processing` answers
\* busy (503 on /chat and /completion, an error message and close on /chat/ws).
\* chat 399-403, completion 777-781, chat_websocket 588-596
GateCheck(rdy, proc) ==
    IF ~rdy THEN "loading"
    ELSE IF proc THEN "busy"
    ELSE "pass"

\* a rejection at the gate that also clears processing, as the handlers'
\* `except Exception` does: a plausible slip
ArriveResetting(r, ep) ==
    /\ Idle
    /\ Serving
    /\ req[r].pc = "new"
    /\ \A q \in Reqs : q < r => req[q].pc # "new"
    /\ LET g == GateCheck(ready, processing)
       IN  /\ req' = [req EXCEPT ![r].ep = ep,
                                 ![r].saw_processing = processing,
                                 ![r].status = IF g = "pass" THEN "none" ELSE g,
                                 ![r].pc = IF g = "pass" THEN "body" ELSE "closed"]
           /\ processing' = IF g = "pass" THEN processing ELSE FALSE
    /\ UNCHANGED <<loadVars, counterVars, logVars, running, snapshot, auxVars, subVars>>

\* A request arrives at an endpoint and its handler runs up to its first
\* await past the gate: request.json() or websocket.receive_json().
\* chat 395-406, completion 773-784, chat_websocket 582-600
Arrive(r, ep) ==
    /\ Idle
    /\ Serving
    /\ req[r].pc = "new"
    /\ \A q \in Reqs : q < r => req[q].pc # "new"
    /\ LET g == GateCheck(ready, processing)
       IN  req' = [req EXCEPT ![r].ep = ep,
                              ![r].saw_processing = processing,
                              ![r].status = IF g = "pass" THEN "none" ELSE g,
                              ![r].pc = IF g = "pass" THEN "body" ELSE "closed"]
    /\ UNCHANGED <<loadVars, processing, counterVars, logVars, running, snapshot, auxVars, subVars>>

\* what the awaited body turns out to be
BodyKinds(ep) ==
    {"ok", "empty_prompt", "bad_json", "disconnect"}
        \cup (IF ep = "completion" THEN {"no_stream"} ELSE {})

\* The body arrives.  /chat and /completion: any exception, the 400 of an
\* empty prompt and the 501 of stream=false included, lands in the handler's
\* `except Exception`, which sets processing = False and answers 500.
\* /chat/ws: an empty prompt is answered and closed, a disconnect passes,
\* any other exception sets processing = False.
\* chat 405-419 and 575-578, completion 783-804 and 965-968,
\* chat_websocket 598-615 and 759-769
BodyRead(r, kind, mt, st) ==
    /\ Idle
    /\ req[r].pc = "body"
    /\ kind \in BodyKinds(req[r].ep)
    /\ LET ep == req[r].ep
       IN  IF kind = "ok"
           THEN /\ processing' = TRUE
                /\ req' = [req EXCEPT ![r].pc = "admitted",
                                      ![r].admitted = TRUE,
                                      ![r].status = "streaming",
                                      ![r].max_tokens = mt,
                                      ![r].stop =
                                          IF ep = "completion" THEN st ELSE <<>>,
                                      ![r].stop_tokens =
                                          IF ep = "completion"
                                          THEN StopTokens(st) ELSE {}]
                /\ running' = IF IsSSE(ep) THEN NoTask ELSE ReqTask(r)
           ELSE /\ processing' =
                       IF IsSSE(ep) \/ kind = "bad_json" THEN FALSE ELSE processing
                /\ req' = [req EXCEPT ![r].pc = "closed",
                                      ![r].status =
                                          IF IsSSE(ep) THEN "500"
                                          ELSE IF kind = "empty_prompt"
                                               THEN "prompt_required"
                                          ELSE kind]
                /\ running' = NoTask
    /\ UNCHANGED <<loadVars, counterVars, logVars, snapshot, auxVars, subVars>>

\* the finally of a generation that never clears processing: a plausible slip
ReleaseGateStuck(ep) ==
    /\ processing' = processing
    /\ tokens_generated' = IF ep = "completion" THEN tokens_generated ELSE 0
    /\ generation_start_time' =
           IF ep = "completion" THEN generation_start_time ELSE "None"
    /\ UNCHANGED tokens_generated_total

\* The finally of a generation.  /chat and /chat/ws reset the per-generation
\* counters; /completion sets processing only.
\* chat 560-564, chat_websocket 752-757, completion 951-954
ReleaseGate(ep) ==
    /\ processing' = FALSE
    /\ tokens_generated' = IF ep = "completion" THEN tokens_generated ELSE 0
    /\ generation_start_time' =
           IF ep = "completion" THEN generation_start_time ELSE "None"
    /\ UNCHANGED tokens_generated_total

\* The generation starts: template, tokenizer.encode, sampler.  The SSE
\* endpoints then set generation_start_time and zero tokens_generated.  A
\* failure of the set-up goes to the except branch.
\* chat 421-466, completion 806-851, chat_websocket 617-658
GenStart(r, fails) ==
    /\ CanRun(r)
    /\ req[r].pc = "admitted"
    /\ IF fails
       THEN /\ LogLines(<<"failed", "traceback">>)
            /\ req' = [req EXCEPT ![r].pc = "y_err", ![r].out = ErrorEv]
            /\ running' = NoTask
            /\ UNCHANGED counterVars
       ELSE /\ req' = [req EXCEPT ![r].pc = "loop"]
            /\ running' = ReqTask(r)
            /\ IF IsSSE(req[r].ep)
               THEN /\ generation_start_time' = "set"
                    /\ tokens_generated' = 0
                    /\ UNCHANGED tokens_generated_total
               ELSE UNCHANGED counterVars
            /\ UNCHANGED logVars
    /\ UNCHANGED <<loadVars, processing, snapshot, auxVars, subVars>>

(***************************************************************************)
(* The token loop and its incremental decoder                              *)
(***************************************************************************)
\* generate_step's limit when /completion is given n_predict <= 0
BACKEND_DEFAULT == 256

\* while token_count < max_tokens        (/completion: ... or n_predict < 0)
LoopCond(r) ==
    \/ req[r].token_count < req[r].max_tokens
    \/ req[r].ep = "completion" /\ req[r].max_tokens < 0

\* a backend that goes on past the limit it was given: a plausible slip
BackendLimitOver(r) == BACKEND_DEFAULT + 1

\* generate_step(max_tokens=...) yields that many tokens, then StopIteration
BackendLimit(r) ==
    IF req[r].ep = "completion" /\ req[r].max_tokens <= 0
    THEN BACKEND_DEFAULT
    ELSE req[r].max_tokens

\* a decoder that advances previous_full_text at every step: a plausible slip
DecodeStepAdvancing(prev, raw) ==
    LET cur == StripSpecial(raw)
        d0 == IF prev # <<>>
              THEN IF StartsWith(cur, prev)
                   THEN SubSeq(cur, Len(prev) + 1, Len(cur))
                   ELSE <<>>
              ELSE cur
        token_text == IF d0 # <<>> THEN StripSpecial(d0) ELSE d0
    IN  [token_text |-> token_text,
         previous_full_text |-> cur,
         current_full_text |-> cur]

\* One step of the incremental decoder on the text tokenizer.decode returned:
\* strip the markup, take the part after previous_full_text when that is a
\* prefix (the whole text when it is empty, nothing otherwise), strip the
\* delta, and advance previous_full_text only when the delta is non-empty.
\* chat 497-525, chat_websocket 689-717, completion 888-916
DecodeStep(prev, raw) ==
    LET cur == StripSpecial(raw)
        d0 == IF prev # <<>>
              THEN IF StartsWith(cur, prev)
                   THEN SubSeq(cur, Len(prev) + 1, Len(cur))
                   ELSE <<>>
              ELSE cur
        token_text == IF d0 # <<>> THEN StripSpecial(d0) ELSE d0
    IN  [token_text |-> token_text,
         previous_full_text |-> IF token_text # <<>> THEN cur ELSE prev,
         current_full_text |-> cur]

\* a decode failure that forgets the text sent so far: a plausible slip
DecodeFailedReset(prev) ==
    [token_text |-> <<>>, previous_full_text |-> <<>>, current_full_text |-> <<>>]

\* tokenizer.decode raised: an empty delta, previous_full_text kept
\* chat 526-530, chat_websocket 718-722, completion 917-921
DecodeFailed(prev) ==
    [token_text |-> <<>>, previous_full_text |-> prev, current_full_text |-> <<>>]

\* what tokenizer.decode does on one call: returns a text of T, or raises
DecodeOutcomes(T) ==
    {[ok |-> TRUE, text |-> t] : t \in T} \cup {[ok |-> FALSE, text |-> <<>>]}

\* The counters after a token.  The SSE endpoints count it in
\* tokens_generated and tokens_generated_total; /chat/ws counts token_count
\* only.  Every tenth token is logged.
\* chat 537-548, completion 928-939, chat_websocket 728-740
CountToken(r) ==
    /\ IF IsSSE(req[r].ep)
       THEN /\ tokens_generated' = tokens_generated + 1
            /\ tokens_generated_total' = tokens_generated_total + 1
            /\ UNCHANGED generation_start_time
       ELSE UNCHANGED counterVars
    /\ IF (req[r].token_count + 1) % 10 = 0
       THEN LogLines(<<"progress">>)
       ELSE UNCHANGED logVars

\* The loop ends: its condition is false, or the backend is exhausted.  The
\* handler goes on to its completion signal.
\* chat 469-473 and 551, completion 854-858 and 942, chat_websocket 661-665 and 743
LoopEnd(r) ==
    /\ running = ReqTask(r)
    /\ req[r].pc = "loop"
    /\ ~LoopCond(r) \/ req[r].steps >= BackendLimit(r)
    /\ req' = [req EXCEPT ![r].pc = "y_done", ![r].out = DoneEv]
    /\ running' = NoTask
    /\ UNCHANGED <<loadVars, processing, counterVars, logVars, snapshot, auxVars, subVars>>

\* an except branch that sends the error event without logging it: a
\* plausible slip
BackendRaiseUnlogged(r) ==
    /\ running = ReqTask(r)
    /\ req[r].pc = "loop"
    /\ LoopCond(r) /\ req[r].steps < BackendLimit(r)
    /\ req' = [req EXCEPT ![r].pc = "y_err", ![r].out = ErrorEv,
                          ![r].steps = @ + 1]
    /\ UNCHANGED logVars
    /\ running' = NoTask
    /\ UNCHANGED <<loadVars, processing, counterVars, snapshot, auxVars, subVars>>

\* The backend step raises: the except branch logs and sends the error event.
\* chat 554-559, completion 945-950, chat_websocket 746-751
BackendRaise(r) ==
    /\ running = ReqTask(r)
    /\ req[r].pc = "loop"
    /\ LoopCond(r) /\ req[r].steps < BackendLimit(r)
    /\ req' = [req EXCEPT ![r].pc = "y_err", ![r].out = ErrorEv,
                          ![r].steps = @ + 1]
    /\ LogLines(<<"failed", "traceback">>)
    /\ running' = NoTask
    /\ UNCHANGED <<loadVars, processing, counterVars, snapshot, auxVars, subVars>>

\* if stop_tokens and token_id in stop_tokens, on /completion only
\* completion 874-875
IsStop(q, tok) ==
    q.ep = "completion" /\ q.stop_tokens # {} /\ tok \in q.stop_tokens

\* a loop without its end-of-sequence check: a plausible slip
IsEosNever(tok) == FALSE

\* if eos_token_id is not None and token_id == eos_token_id
\* chat 489-490, chat_websocket 681-682, completion 879-880
IsEos(tok) == tok = eos_token_id

\* The backend step yields token id tok, and tokenizer.decode does dec.
\* /completion checks the stop tokens, then the end-of-sequence id, and sends
\* a terminal event for either before leaving the loop; /chat and /chat/ws
\* leave the loop on the end-of-sequence id.  Any other id is accumulated and
\* decoded; a non-empty delta is yielded (sent), an empty one is only counted.
\* chat 469-548, completion 854-939, chat_websocket 661-740
BackendToken(r, tok, dec) ==
    /\ running = ReqTask(r)
    /\ req[r].pc = "loop"
    /\ LoopCond(r) /\ req[r].steps < BackendLimit(r)
    /\ LET q == req[r]
       IN  IF IsStop(q, tok)
           THEN /\ req' = [req EXCEPT ![r].pc = "y_stop", ![r].out = StopEv("stop"),
                                      ![r].steps = @ + 1]
                /\ running' = NoTask
                /\ UNCHANGED <<counterVars, logVars>>
           ELSE IF IsEos(tok)
           THEN /\ req' = [req EXCEPT
                             ![r].pc = IF q.ep = "completion" THEN "y_stop" ELSE "y_done",
                             ![r].out = IF q.ep = "completion" THEN StopEv("eos") ELSE DoneEv,
                             ![r].steps = @ + 1]
                /\ running' = NoTask
                /\ UNCHANGED <<counterVars, logVars>>
           ELSE LET d == IF dec.ok THEN DecodeStep(q.previous_full_text, dec.text)
                         ELSE DecodeFailed(q.previous_full_text)
                IN  IF d.token_text # <<>>
                    THEN /\ req' = [req EXCEPT
                                      ![r].pc = "y_tok",
                                      ![r].out = TokenEv(d.token_text),
                                      ![r].produced = Append(@, d.token_text),
                                      ![r].steps = @ + 1,
                                      ![r].accumulated_tokens = Append(@, tok),
                                      ![r].previous_full_text = d.previous_full_text,
                                      ![r].decode_ok = dec.ok,
                                      ![r].last_decode = d.current_full_text]
                         /\ running' = NoTask
                         /\ UNCHANGED <<counterVars, logVars>>
                    ELSE /\ req' = [req EXCEPT
                                      ![r].steps = @ + 1,
                                      ![r].token_count = @ + 1,
                                      ![r].accumulated_tokens = Append(@, tok),
                                      ![r].previous_full_text = d.previous_full_text,
                                      ![r].decode_ok = dec.ok,
                                      ![r].last_decode = d.current_full_text]
                         /\ running' = ReqTask(r)
                         /\ CountToken(r)
    /\ UNCHANGED <<loadVars, processing, snapshot, auxVars, subVars>>

\* a delivery that loses the token event it was resumed for: a plausible slip
SendDoneDropping(r) ==
    /\ Idle
    /\ req[r].pc \in {"y_tok", "y_stop", "y_done", "y_err"}
    /\ LET q == req[r]
           delivered == Append(q.events, q.out)
       IN  CASE q.pc = "y_tok" ->
                  /\ req' = [req EXCEPT ![r].events = q.events, ![r].out = NoEvent,
                                        ![r].token_count = @ + 1, ![r].pc = "loop"]
                  /\ running' = ReqTask(r)
                  /\ CountToken(r)
                  /\ UNCHANGED processing
             [] q.pc = "y_stop" ->
                  /\ req' = [req EXCEPT ![r].events = delivered, ![r].out = DoneEv,
                                        ![r].pc = "y_done"]
                  /\ running' = NoTask
                  /\ UNCHANGED <<processing, counterVars, logVars>>
             [] q.pc = "y_done" ->
                  /\ req' = [req EXCEPT ![r] = Closed(q, "completed", delivered)]
                  /\ running' = NoTask
                  /\ LogLines(<<"completed">>)
                  /\ ReleaseGate(q.ep)
             [] q.pc = "y_err" ->
                  /\ req' = [req EXCEPT ![r] = Closed(q, "error", delivered)]
                  /\ running' = NoTask
                  /\ UNCHANGED logVars
                  /\ ReleaseGate(q.ep)
    /\ UNCHANGED <<loadVars, snapshot, auxVars, subVars>>

\* The event being yielded or sent is delivered and the handler resumes.
\* After a token: count it and go round the loop.  After /completion's stop
\* or eos event: break, then the completion signal after the loop.  After the
\* completion signal: log, then the finally.  After the error event: the
\* finally.
\* chat 535-564, completion 876-882 and 926-954, chat_websocket 726-757
SendDone(r) ==
    /\ Idle
    /\ req[r].pc \in {"y_tok", "y_stop", "y_done", "y_err"}
    /\ LET q == req[r]
           delivered == Append(q.events, q.out)
       IN  CASE q.pc = "y_tok" ->
                  /\ req' = [req EXCEPT ![r].events = delivered, ![r].out = NoEvent,
                                        ![r].token_count = @ + 1, ![r].pc = "loop"]
                  /\ running' = ReqTask(r)
                  /\ CountToken(r)
                  /\ UNCHANGED processing
             [] q.pc = "y_stop" ->
                  /\ req' = [req EXCEPT ![r].events = delivered, ![r].out = DoneEv,
                                        ![r].pc = "y_done"]
                  /\ running' = NoTask
                  /\ UNCHANGED <<processing, counterVars, logVars>>
             [] q.pc = "y_done" ->
                  /\ req' = [req EXCEPT ![r] = Closed(q, "completed", delivered)]
                  /\ running' = NoTask
                  /\ LogLines(<<"completed">>)
                  /\ ReleaseGate(q.ep)
             [] q.pc = "y_err" ->
                  /\ req' = [req EXCEPT ![r] = Closed(q, "error", delivered)]
                  /\ running' = NoTask
                  /\ UNCHANGED logVars
                  /\ ReleaseGate(q.ep)
    /\ UNCHANGED <<loadVars, snapshot, auxVars, subVars>>

\* The client is gone while an event is being yielded or sent.  SSE: the
\* generator is closed at its yield and only its finally runs.  /chat/ws: the
\* send raises; inside the try that is logged as a generation failure, the
\* error send raises in turn, and the finally runs.
\* chat 560-564, completion 951-954, chat_websocket 746-769
Disconnect(r) ==
    /\ Idle
    /\ req[r].pc \in {"y_tok", "y_stop", "y_done", "y_err"}
    /\ req' = [req EXCEPT ![r] = Closed(req[r], "disconnected", req[r].events)]
    /\ IF req[r].ep = "ws" /\ req[r].pc # "y_err"
       THEN LogLines(<<"failed", "traceback">>)
       ELSE UNCHANGED logVars
    /\ ReleaseGate(req[r].ep)
    /\ running' = NoTask
    /\ UNCHANGED <<loadVars, snapshot, auxVars, subVars>>

(***************************************************************************)
(* Health and metrics                                                      *)
(***************************************************************************)
\* GET /health: the handler reads ready and returns, with no await
\* health 207-209
health == [status |-> IF ready THEN "ready" ELSE "loading"]

\* tps as the pair <<tokens, seconds>>; 0.0 is <<0, 1>>
ZeroTps == <<0, 1>>

\* get_system_metrics, its token fields: tps is tokens_generated / elapsed
\* when tokens_generated > 0, generation_start_time is set and elapsed > 0,
\* and 0.0 otherwise; a failure of the collection reports zeros.
\* get_system_metrics 223-294
get_system_metrics(elapsed, fails) ==
    IF fails THEN [tps |-> ZeroTps, predictedTotal |-> 0]
    ELSE [tps |-> IF tokens_generated > 0 /\ generation_start_time # "None"
                     /\ elapsed > 0
                  THEN <<tokens_generated, elapsed>> ELSE ZeroTps,
          predictedTotal |-> tokens_generated_total]

NoSnapshot ==
    [taken |-> FALSE, ready |-> FALSE, processing |-> FALSE, queueLength |-> 0,
     tps |-> ZeroTps, predictedTotal |-> 0]

\* a snapshot that reports the requests being handled as the queue: a
\* plausible slip
MakeSnapshotCounting(elapsed, fails) ==
    LET m == get_system_metrics(elapsed, fails)
    IN  [taken |-> TRUE, ready |-> ready, processing |-> processing,
         queueLength |-> Cardinality({r \in Reqs : req[r].pc \notin {"new", "closed"}}),
         tps |-> m.tps, predictedTotal |-> m.predictedTotal]

\* the snapshot that /metrics returns and /metrics/stream pushes
\* metrics 212-221, metrics_stream 307-315 and 324-332
MakeSnapshot(elapsed, fails) ==
    LET m == get_system_metrics(elapsed, fails)
    IN  [taken |-> TRUE, ready |-> ready, processing |-> processing,
         queueLength |-> Len(request_queue),
         tps |-> m.tps, predictedTotal |-> m.predictedTotal]

\* GET /metrics, or one push of a /metrics/stream handler
Metrics(elapsed, fails) ==
    /\ Idle
    /\ Serving
    /\ snapshot' = MakeSnapshot(elapsed, fails)
    /\ UNCHANGED <<loadVars, processing, counterVars, logVars, req, running, subVars,
                   auxVars>>

(***************************************************************************)
(* broadcast_log_async and the model loader that calls it                  *)
(***************************************************************************)
Subs == 1 .. NumSubs
SubTask(s) == [kind |-> "sub", id |-> s]

\* list.remove: the first occurrence goes
RECURSIVE RemoveFirst(_, _)
RemoveFirst(list, x) ==
    IF list = <<>> THEN <<>>
    ELSE IF Head(list) = x THEN Tail(list)
    ELSE <<Head(list)>> \o RemoveFirst(Tail(list), x)

InList(list, x) == \E i \in 1 .. Len(list) : list[i] = x

\* for ws in disconnected: if ws in log_websockets: log_websockets.remove(ws)
RECURSIVE RemoveAll(_, _)
RemoveAll(list, gone) ==
    IF gone = <<>> THEN list
    ELSE RemoveAll(IF InList(list, Head(gone)) THEN RemoveFirst(list, Head(gone)) ELSE list,
                   Tail(gone))

\* the pass of broadcast_log_async: the line, the index of the list iterator,
\* the registry when the pass began, the sockets it has awaited a send to,
\* and those whose send raised
NoPass ==
    [line |-> Line(0, ""), idx |-> 0, at_start |-> <<>>, tried |-> <<>>,
     disconnected |-> <<>>]

\* broadcast_log_async up to its loop: the line is appended, the pass begins
\* broadcast_log_async 73-78
BeginBroadcast(text) ==
    /\ LogLines(<<text>>)
    /\ bpass' = [line |-> Line(log_total + 1, text), idx |-> 0,
                 at_start |-> log_websockets, tried |-> <<>>,
                 disconnected |-> <<>>]

LoaderInPass ==
    lpc \in {"log_loading", "log_progress", "log_loaded", "log_time",
             "log_failed", "log_traceback"}

LoaderCanRun == running = NoTask \/ running = LoaderTask

\* load_model_async is past `ready = True` (line 175)
LoadSucceeded == lpc \in {"log_loaded", "log_time", "done"}

\* load_model_async is in or past its except branch (lines 179-184)
LoadFailed == lpc \in {"log_failed", "log_traceback", "failed"}

\* load_model_async starts: its first log line
\* load_model_async 104-106
LoadBegin ==
    /\ Idle
    /\ lpc = "init"
    /\ BeginBroadcast("loading")
    /\ lpc' = "log_loading"
    /\ running' = LoaderTask
    /\ UNCHANGED <<ready, processing, counterVars, req, snapshot, auxVars, log_websockets, sub, log_calls>>

\* One turn of `for ws in log_websockets: await ws.send_json(...)`: the list
\* iterator reads the live list at its index; the line reaches the
\* subscriber, or the send raises and the subscriber is noted as disconnected.
\* broadcast_log_async 78-85
PassSend ==
    /\ LoaderCanRun
    /\ LoaderInPass
    /\ bpass.idx < Len(log_websockets)
    /\ LET s == log_websockets[bpass.idx + 1]
       IN  IF sub[s].connected
           THEN /\ sub' = [sub EXCEPT ![s].received = Append(@, bpass.line.id)]
                /\ bpass' = [bpass EXCEPT !.idx = @ + 1, !.tried = Append(@, s)]
           ELSE /\ bpass' = [bpass EXCEPT !.idx = @ + 1, !.tried = Append(@, s),
                                          !.disconnected = Append(@, s)]
                /\ UNCHANGED sub
    /\ running' = NoTask
    /\ UNCHANGED <<loadVars, processing, counterVars, logVars, req, snapshot, auxVars,
                   log_websockets, log_calls>>

\* The pass is over: the disconnected subscribers are removed, and
\* load_model_async goes on to its next await.
\* broadcast_log_async 87-90, load_model_async 106-184
PassEnd ==
    /\ LoaderCanRun
    /\ LoaderInPass
    /\ bpass.idx >= Len(log_websockets)
    /\ log_websockets' = RemoveAll(log_websockets, bpass.disconnected)
    /\ CASE lpc \in {"log_loading", "log_progress"} ->
              /\ lpc' = "waiting"
              /\ bpass' = NoPass
              /\ running' = NoTask
              /\ UNCHANGED <<ready, logVars>>
         [] lpc = "log_loaded" ->
              /\ BeginBroadcast("loading_time")
              /\ lpc' = "log_time"
              /\ running' = LoaderTask
              /\ UNCHANGED ready
         [] lpc = "log_time" ->
              /\ lpc' = "done"
              /\ bpass' = NoPass
              /\ running' = NoTask
              /\ UNCHANGED <<ready, logVars>>
         [] lpc = "log_failed" ->
              /\ BeginBroadcast("traceback")
              /\ lpc' = "log_traceback"
              /\ running' = LoaderTask
              /\ UNCHANGED ready
         [] lpc = "log_traceback" ->
              /\ ready' = FALSE
              /\ lpc' = "failed"
              /\ bpass' = NoPass
              /\ running' = NoTask
              /\ UNCHANGED logVars
    /\ UNCHANGED <<processing, counterVars, req, snapshot, auxVars, sub, log_calls>>

\* While the load runs in the executor the loader wakes every 0.5 s and now
\* and then logs its progress.
\* load_with_progress 144-167
LoadProgress ==
    /\ Idle
    /\ lpc = "waiting"
    /\ log_total < MaxProgress
    /\ BeginBroadcast("progress")
    /\ lpc' = "log_progress"
    /\ running' = LoaderTask
    /\ UNCHANGED <<ready, processing, counterVars, req, snapshot, auxVars, log_websockets, sub, log_calls>>

\* The load returns: ready = True, then the two success lines.
\* load_model_async 170-177
LoadOk ==
    /\ Idle
    /\ lpc = "waiting"
    /\ ready' = TRUE
    /\ BeginBroadcast("loaded")
    /\ lpc' = "log_loaded"
    /\ running' = LoaderTask
    /\ UNCHANGED <<processing, counterVars, req, snapshot, auxVars, log_websockets, sub, log_calls>>

\* a loader that sets ready before the load has returned, so that a failing
\* load leaves it set until the except branch ends: a plausible slip
LoadFailReady ==
    /\ Idle
    /\ lpc = "waiting"
    /\ ready' = TRUE
    /\ BeginBroadcast("load_failed")
    /\ lpc' = "log_failed"
    /\ running' = LoaderTask
    /\ UNCHANGED <<processing, counterVars, req, snapshot, auxVars, log_websockets, sub, log_calls>>

\* The load raises: the two failure lines, then ready = False.
\* load_model_async 179-184
LoadFail ==
    /\ Idle
    /\ lpc = "waiting"
    /\ BeginBroadcast("load_failed")
    /\ lpc' = "log_failed"
    /\ running' = LoaderTask
    /\ UNCHANGED <<ready, processing, counterVars, req, snapshot, auxVars, log_websockets, sub, log_calls>>

\* A task other than the loader calls broadcast_log: the start-up code once,
\* before the application starts (line 1066), and the generation handlers,
\* which run only when ready (lines 548-558, 740-750, 939-949).
\* broadcast_log 62-68
LogCall(limit) ==
    /\ Idle
    /\ log_calls < limit
    /\ ready \/ (lpc = "init" /\ log_total = 0)
    /\ log_calls' = log_calls + 1
    /\ LogLines(<<"line">>)
    /\ UNCHANGED <<loadVars, processing, counterVars, req, running, snapshot, auxVars,
                   log_websockets, sub, bpass>>

(***************************************************************************)
(* /logs/stream                                                            *)
(***************************************************************************)
InitSub ==
    [pc |-> "new",            \* where the handler is
     connected |-> TRUE,      \* the client is still there
     pending |-> <<>>,        \* the rest of the slice the for loop iterates
     last_index |-> 0,        \* last_index
     received |-> <<>>,       \* ids of the lines delivered (0: the greeting)
     at_connect |-> <<>>,     \* the buffer when the subscriber connected
     send_failed |-> FALSE,   \* a send of the handler's own loops has raised
     live_from |-> 0]         \* lines appended when the backlog loop ended

\* log_messages[-n:]
LastN(list, n) ==
    IF Len(list) <= n THEN list ELSE SubSeq(list, Len(list) - n + 1, Len(list))

\* log_messages[i:]
From(list, i) == SubSeq(list, i + 1, Len(list))

SubCanRun(s) == running = NoTask \/ running = SubTask(s)

\* The connection is accepted, the socket is registered, and the greeting is
\* sent.  A failed greeting leaves through the handler's finally.
\* logs_stream 352-357 and 385-391
SubConnect(s, alive) ==
    /\ Idle
    /\ Serving
    /\ sub[s].pc = "new"
    /\ \A t \in Subs : t < s => sub[t].pc # "new"
    /\ IF alive
       THEN /\ log_websockets' = Append(log_websockets, s)
            /\ sub' = [sub EXCEPT ![s].pc = "greeting",
                                  ![s].received = <<0>>,
                                  ![s].at_connect = log_messages]
       ELSE /\ log_websockets' = log_websockets
            /\ sub' = [sub EXCEPT ![s].pc = "closed", ![s].connected = FALSE]
    /\ UNCHANGED <<loadVars, processing, counterVars, logVars, req, running,
                   snapshot, auxVars, bpass, log_calls>>

\* The send of the greeting raises, the client being gone: the handler leaves
\* through its finally, which takes the socket off the registry.
\* logs_stream 357 and 385-391
SubGreetingFails(s) ==
    /\ Idle
    /\ sub[s].pc = "greeting"
    /\ ~sub[s].connected
    /\ sub' = [sub EXCEPT ![s].pc = "closed"]
    /\ log_websockets' = IF InList(log_websockets, s)
                         THEN RemoveFirst(log_websockets, s)
                         ELSE log_websockets
    /\ UNCHANGED <<loadVars, processing, counterVars, logVars, req, running,
                   snapshot, auxVars, bpass, log_calls>>

\* The greeting is out: the backlog slice is taken.
\* logs_stream 360
SubBacklog(s) ==
    /\ Idle
    /\ sub[s].pc = "greeting"
    /\ sub' = [sub EXCEPT ![s].pc = "backlog",
                          ![s].pending = LastN(log_messages, BACKLOG)]
    /\ running' = SubTask(s)
    /\ UNCHANGED <<loadVars, processing, counterVars, logVars, req, snapshot, auxVars,
                   log_websockets, bpass, log_calls>>

\* One turn of a for loop over a slice (the backlog, or the new lines): the
\* next line is sent; when the slice is used up, or the send raises,
\* last_index = len(log_messages) and the handler sleeps.
\* logs_stream 360-370 and 376-384
SubSend(s) ==
    /\ SubCanRun(s)
    /\ sub[s].pc \in {"backlog", "live"}
    /\ IF sub[s].pending # <<>> /\ sub[s].connected
       THEN /\ sub' = [sub EXCEPT ![s].received = Append(@, Head(sub[s].pending).id),
                                  ![s].pending = Tail(@)]
       ELSE /\ sub' = [sub EXCEPT ![s].pc = "sleep",
                                  ![s].pending = <<>>,
                                  ![s].send_failed =
                                      @ \/ (sub[s].pending # <<>> /\ ~sub[s].connected),
                                  ![s].last_index = Len(log_messages),
                                  ![s].live_from =
                                      IF sub[s].pc = "backlog" THEN log_total ELSE @]
    /\ running' = NoTask
    /\ UNCHANGED <<loadVars, processing, counterVars, logVars, req, snapshot, auxVars,
                   log_websockets, bpass, log_calls>>

\* The handler wakes and finds new lines past last_index.
\* logs_stream 371-376
SubPoll(s) ==
    /\ Idle
    /\ sub[s].pc = "sleep"
    /\ sub[s].last_index < Len(log_messages)
    /\ sub' = [sub EXCEPT ![s].pc = "live",
                          ![s].pending = From(log_messages, sub[s].last_index)]
    /\ running' = SubTask(s)
    /\ UNCHANGED <<loadVars, processing, counterVars, logVars, req, snapshot, auxVars,
                   log_websockets, bpass, log_calls>>

\* the client of a subscriber goes away
SubDrop(s) ==
    /\ Idle
    /\ sub[s].pc \in {"greeting", "backlog", "live", "sleep"}
    /\ sub[s].connected
    /\ sub' = [sub EXCEPT ![s].connected = FALSE]
    /\ UNCHANGED <<loadVars, processing, counterVars, logVars, req, running,
                   snapshot, auxVars, log_websockets, bpass, log_calls>>

(***************************************************************************)
(* /metrics/stream                                                         *)
(***************************************************************************)
MSubs == 1 .. NumMSubs

InitMSub ==
    [pc |-> "new",            \* where the handler is
     connected |-> TRUE,      \* the client is still there
     wakeups |-> 0,           \* times the handler woke from its sleep
     pushed |-> 0,            \* periodic snapshots delivered
     out |-> NoSnapshot,      \* the snapshot being sent
     last |-> NoSnapshot]     \* the last snapshot delivered

\* The connection is accepted, the socket is registered, the first snapshot
\* is computed and its send begins.  A failed accept leaves through the
\* handler's finally with the socket never registered.
\* metrics_stream 298-318 and 339-346
MConnect(m, alive, elapsed, fails) ==
    /\ Idle
    /\ Serving
    /\ msub[m].pc = "new"
    /\ \A n \in MSubs : n < m => msub[n].pc # "new"
    /\ IF alive
       THEN /\ metrics_websockets' = Append(metrics_websockets, m)
            /\ snapshot' = MakeSnapshot(elapsed, fails)
            /\ msub' = [msub EXCEPT ![m].pc = "initial", ![m].out = snapshot']
       ELSE /\ metrics_websockets' = metrics_websockets
            /\ snapshot' = snapshot
            /\ msub' = [msub EXCEPT ![m].pc = "closed", ![m].connected = FALSE]
    /\ UNCHANGED <<loadVars, processing, counterVars, logVars, req, running,
                   subVars, sampling, engine>>

\* The send of the first snapshot is over; an exception of it is printed and
\* the handler goes on to its loop.
\* metrics_stream 317-323
MInitialSent(m) ==
    /\ Idle
    /\ msub[m].pc = "initial"
    /\ msub' = [msub EXCEPT ![m].pc = "sleep",
                            ![m].last = IF msub[m].connected THEN msub[m].out ELSE @,
                            ![m].out = NoSnapshot]
    /\ UNCHANGED <<loadVars, processing, counterVars, logVars, req, running,
                   snapshot, subVars, metrics_websockets, sampling, engine>>

\* The handler wakes from asyncio.sleep(0.5), computes a snapshot and begins
\* to send it.
\* metrics_stream 322-334
MWake(m, elapsed, fails) ==
    /\ Idle
    /\ msub[m].pc = "sleep"
    /\ msub[m].wakeups < MaxWakeups
    /\ snapshot' = MakeSnapshot(elapsed, fails)
    /\ msub' = [msub EXCEPT ![m].pc = "sending", ![m].wakeups = @ + 1,
                            ![m].out = snapshot']
    /\ UNCHANGED <<loadVars, processing, counterVars, logVars, req, running,
                   subVars, metrics_websockets, sampling, engine>>

\* a periodic send whose failure ends the handler without taking the socket
\* off the registry: a plausible slip
MSendDoneNoRemove(m) ==
    /\ Idle
    /\ msub[m].pc = "sending"
    /\ IF msub[m].connected
       THEN msub' = [msub EXCEPT ![m].pc = "sleep", ![m].pushed = @ + 1,
                                 ![m].last = msub[m].out, ![m].out = NoSnapshot]
       ELSE msub' = [msub EXCEPT ![m].pc = "closed", ![m].out = NoSnapshot]
    /\ UNCHANGED <<loadVars, processing, counterVars, logVars, req, running,
                   snapshot, subVars, metrics_websockets, sampling, engine>>

\* The periodic send is over.  Delivered: the handler sleeps again.  Raised:
\* `break` leaves the while loop and the finally takes the socket off the
\* registry.
\* metrics_stream 333-346
MSendDone(m) ==
    /\ Idle
    /\ msub[m].pc = "sending"
    /\ IF msub[m].connected
       THEN /\ msub' = [msub EXCEPT ![m].pc = "sleep", ![m].pushed = @ + 1,
                                    ![m].last = msub[m].out, ![m].out = NoSnapshot]
            /\ UNCHANGED metrics_websockets
       ELSE /\ msub' = [msub EXCEPT ![m].pc = "closed", ![m].out = NoSnapshot]
            /\ metrics_websockets' = IF InList(metrics_websockets, m)
                                     THEN RemoveFirst(metrics_websockets, m)
                                     ELSE metrics_websockets
    /\ UNCHANGED <<loadVars, processing, counterVars, logVars, req, running,
                   snapshot, subVars, sampling, engine>>

\* the client of a metrics subscriber goes away
MDrop(m) ==
    /\ Idle
    /\ msub[m].pc \in {"initial", "sleep", "sending"}
    /\ msub[m].connected
    /\ msub' = [msub EXCEPT ![m].connected = FALSE]
    /\ UNCHANGED <<loadVars, processing, counterVars, logVars, req, running,
                   snapshot, subVars, metrics_websockets, sampling, engine>>

(***************************************************************************)
(* The stdin/stdout engine                                                 *)
(***************************************************************************)
\* everything but the engine process
serverVars == <<loadVars, processing, counterVars, logVars, req, running,
                snapshot, subVars, metrics_websockets, msub, sampling>>

\* the engine process as main() starts: lines are the kinds of the lines read
\* so far, outs the status lines written for each of them
InitEngine ==
    [pc |-> "load", lines |-> <<>>, outs |-> <<>>, token_count |-> 0,
     max_tokens |-> 0]

\* what a line of standard input turns out to be: blank, not JSON, JSON that
\* is not an object, a request object
LineKinds == {"blank", "bad_json", "not_object", "request"}

\* print(json.dumps({"status": status, ...}), flush=True) for the line being
\* served
Emit(e, status) == [e EXCEPT !.outs[Len(e.outs)] = Append(@, status)]

\* load(MODEL_PATH) returned: "ready" is printed and the loop starts
\* main 44-82
ELoadOk ==
    /\ engine.pc = "load"
    /\ engine' = [engine EXCEPT !.pc = "read"]
    /\ UNCHANGED serverVars

\* the model path is missing or the load raised: sys.exit(1)
\* main 49-53 and 83-94
ELoadFail ==
    /\ engine.pc = "load"
    /\ engine' = [engine EXCEPT !.pc = "exit"]
    /\ UNCHANGED serverVars

\* One line is read.  A blank line is skipped.  A line that is not JSON, or
\* whose JSON is not an object, is answered with an error by the outer
\* handlers.  A request first gets its warning, if it carries an unsupported
\* field; with an empty prompt it is answered with an error, otherwise its
\* generation is set up.
\* main 97-138, 255-258
ReadLine(kind, empty, unsupported, mt) ==
    /\ engine.pc = "read"
    /\ Len(engine.lines) < MaxLines
    /\ kind \in LineKinds
    /\ LET e == [engine EXCEPT !.lines = Append(@, kind),
                               !.outs = Append(@, <<>>)]
           w == IF unsupported THEN Emit(e, "warning") ELSE e
       IN  engine' =
               IF kind = "blank" THEN e
               ELSE IF kind \in {"bad_json", "not_object"} THEN Emit(e, "error")
               ELSE IF empty THEN Emit(w, "error")
               ELSE [w EXCEPT !.pc = "gen", !.token_count = 0,
                              !.max_tokens = mt]
    /\ UNCHANGED serverVars

\* standard input is at its end: the for loop and main() return
\* main 97
Eof ==
    /\ engine.pc = "read"
    /\ engine' = [engine EXCEPT !.pc = "eof"]
    /\ UNCHANGED serverVars

\* while token_count < max_tokens is false: "done" is printed
\* main 182, 221
GenLimit ==
    /\ engine.pc = "gen"
    /\ engine.token_count >= engine.max_tokens
    /\ engine' = [Emit(engine, "done") EXCEPT !.pc = "read"]
    /\ UNCHANGED serverVars

\* next(step_generator) raises StopIteration: break, "done" is printed
\* main 183-188, 221
GenStopIteration ==
    /\ engine.pc = "gen"
    /\ engine.token_count < engine.max_tokens
    /\ engine' = [Emit(engine, "done") EXCEPT !.pc = "read"]
    /\ UNCHANGED serverVars

\* One token: it is decoded and printed and token_count grows; the
\* end-of-sequence id, printed too, leaves the loop, and "done" is printed.
\* main 182-221
GenToken(tok) ==
    /\ engine.pc = "gen"
    /\ engine.token_count < engine.max_tokens
    /\ LET t == [Emit(engine, "token") EXCEPT !.token_count = @ + 1]
       IN  engine' = IF IsEos(tok)
                     THEN [Emit(t, "done") EXCEPT !.pc = "read"]
                     ELSE t
    /\ UNCHANGED serverVars

\* a generation that answers its failure and leaves the process: a plausible
\* slip, the load's handler copied
GenRaiseExit ==
    /\ engine.pc = "gen"
    /\ engine' = [Emit(engine, "error") EXCEPT !.pc = "exit"]
    /\ UNCHANGED serverVars

\* the set-up of the generation or a step of it raises: except Exception
\* prints "Generation failed"
\* main 154-221, 253-254
GenRaise ==
    /\ engine.pc = "gen"
    /\ engine' = [Emit(engine, "error") EXCEPT !.pc = "read"]
    /\ UNCHANGED serverVars

\* the set-up or a step raises ImportError: stream_generate is started
\* main 223-239
GenImportError ==
    /\ engine.pc = "gen"
    /\ engine' = [engine EXCEPT !.pc = "fallback", !.token_count = 0]
    /\ UNCHANGED serverVars

\* stream_generate yields a response: it is printed as a token
\* main 228-247
FallbackToken ==
    /\ engine.pc = "fallback"
    /\ engine.token_count < engine.max_tokens
    /\ engine' = [Emit(engine, "token") EXCEPT !.token_count = @ + 1]
    /\ UNCHANGED serverVars

\* stream_generate is exhausted: "done" is printed
\* main 249-250
FallbackDone ==
    /\ engine.pc = "fallback"
    /\ engine' = [Emit(engine, "done") EXCEPT !.pc = "read"]
    /\ UNCHANGED serverVars

\* stream_generate raises: "Generation failed" is printed
\* main 251-252
FallbackRaise ==
    /\ engine.pc = "fallback"
    /\ engine' = [Emit(engine, "error") EXCEPT !.pc = "read"]
    /\ UNCHANGED serverVars

(***************************************************************************)
(* The sampling options of a request                                       *)
(***************************************************************************)
\* the sampling fields MLX has no use for
SamplingFields ==
    {"top_k", "mirostat", "tfs_z", "typical_p", "penalize_nl", "dry_multiplier",
     "presence_penalty", "frequency_penalty"}

\* a field is not in the request, carries the value that is its default
\* (0 for mirostat), or carries another value
FieldValues == {"absent", "default", "other"}

\* who reads a request: the /completion handler of the server, the stdin
\* loop of engine.py, the command line of inference.py
Paths == {"server", "engine", "inference"}

NoFields == [f \in SamplingFields |-> "absent"]

NoSampling ==
    [pc |-> "none", path |-> "none", fields |-> NoFields, warned |-> {},
     top_k |-> "unused", outcome |-> "none"]

\* engine.py: a warning names every field that is present, mirostat only
\* when it is not 0
\* engine.py 111-134
engine_unsupported(fields) ==
    {f \in SamplingFields :
        IF f = "mirostat" THEN fields[f] = "other" ELSE fields[f] # "absent"}

\* inference.py: a warning names six of the fields, each only when its value
\* is not the default
\* inference.py 36-52
inference_unsupported(fields) ==
    {f \in {"typical_p", "tfs_z", "presence_penalty", "frequency_penalty",
            "dry_multiplier", "mirostat"} : fields[f] = "other"}

\* inference.py hands top_k to the backend: options.get('top_k', 40)
\* inference.py 26-34 and 60-64
inference_top_k(fields) ==
    IF fields["top_k"] = "absent" THEN "default" ELSE fields["top_k"]

\* /completion reads top_k into a local nobody uses and looks at no other of
\* the fields; the sampler is built from temp, top_p and min_p.  No warning.
\* server-python-direct.py 784-794 and 815-819
ServerRead ==
    /\ sampling.pc = "new" /\ sampling.path = "server"
    /\ sampling' = [sampling EXCEPT !.pc = "read", !.warned = {},
                                    !.top_k = "unused", !.outcome = "accepted"]
    /\ UNCHANGED <<loadVars, processing, counterVars, logVars, req, running,
                   snapshot, subVars, metrics_websockets, msub, engine>>

\* engine.py reads a request line: the warning, then the generation with
\* temp, top_p, min_p and the repetition penalty.
\* engine.py 100-165
EngineRead ==
    /\ sampling.pc = "new" /\ sampling.path = "engine"
    /\ sampling' = [sampling EXCEPT !.pc = "read",
                                    !.warned = engine_unsupported(sampling.fields),
                                    !.top_k = "unused", !.outcome = "accepted"]
    /\ UNCHANGED <<loadVars, processing, counterVars, logVars, req, running,
                   snapshot, subVars, metrics_websockets, msub, engine>>

\* inference.py reads its options: the generation arguments, then the warning.
\* inference.py 16-64
InferenceRead ==
    /\ sampling.pc = "new" /\ sampling.path = "inference"
    /\ sampling' = [sampling EXCEPT !.pc = "read",
                                    !.warned = inference_unsupported(sampling.fields),
                                    !.top_k = inference_top_k(sampling.fields),
                                    !.outcome = "accepted"]
    /\ UNCHANGED <<loadVars, processing, counterVars, logVars, req, running,
                   snapshot, subVars, metrics_websockets, msub, engine>>

(***************************************************************************)
(* Specifications                                                          *)
(***************************************************************************)
\* the module as loaded: lines 45-60
Init ==
    /\ ready = FALSE
    /\ lpc = "init"
    /\ processing = FALSE
    /\ tokens_generated = 0
    /\ tokens_generated_total = 0
    /\ generation_start_time = "None"
    /\ log_messages = <<>>
    /\ log_total = 0
    /\ log_calls = 0
    /\ req = [r \in Reqs |-> InitReq]
    /\ running = NoTask
    /\ snapshot = NoSnapshot
    /\ log_websockets = <<>>
    /\ sub = [s \in Subs |-> InitSub]
    /\ bpass = NoPass
    /\ metrics_websockets = <<>>
    /\ msub = [m \in MSubs |-> InitMSub]
    /\ sampling = NoSampling
    /\ engine = InitEngine

\* the loader with nobody on /logs/stream
Loader ==
    \/ LoadBegin
    \/ PassEnd
    \/ LoadProgress
    \/ LoadOk
    \/ LoadFail

\* the handlers of request r, the tokenizer returning texts of T and the
\* request asking for at most M tokens
Handler(r, T, M) ==
    \/ \E ep \in Endpoints : Arrive(r, ep)
    \/ \E kind \in BodyKinds(req[r].ep), mt \in 0 .. M, st \in StopChoices :
           BodyRead(r, kind, mt, st)
    \/ \E fails \in BOOLEAN : GenStart(r, fails)
    \/ LoopEnd(r)
    \/ BackendRaise(r)
    \/ \E tok \in TokenIds, dec \in DecodeOutcomes(T) : BackendToken(r, tok, dec)
    \/ SendDone(r)
    \/ Disconnect(r)

\* The gate: the loader and NumReqs requests on the three generation
\* endpoints.
GateNext ==
    \/ Loader
    \/ \E r \in Reqs : Handler(r, GateTexts, MaxTokens)

\* The gate, and metrics snapshots taken at any time.
Next ==
    \/ GateNext
    \/ \E elapsed \in 0 .. MaxElapsed, fails \in BOOLEAN : Metrics(elapsed, fails)

Spec == Init /\ [][Next]_vars

\* What moves the handler of r once its generation is admitted.  The event
\* loop runs every task that can run, a backend step returns, and a send to
\* the client completes or fails.
Progress(r) ==
    \/ \E fails \in BOOLEAN : GenStart(r, fails)
    \/ LoopEnd(r)
    \/ BackendRaise(r)
    \/ \E tok \in TokenIds, dec \in DecodeOutcomes(GateTexts) : BackendToken(r, tok, dec)
    \/ SendDone(r)
    \/ Disconnect(r)

FairSpec == Init /\ [][GateNext]_vars /\ \A r \in Reqs : WF_vars(Progress(r))

\* One generation, the tokenizer returning any of DecoderTexts.
DecoderNext ==
    \/ Loader
    \/ Handler(1, DecoderTexts, MaxDecodeTokens)

DecoderSpec == Init /\ [][DecoderNext]_vars

\* One generation, the tokenizer returning any of NestedTexts.
NestedNext ==
    \/ Loader
    \/ Handler(1, NestedTexts, MaxDecodeTokens)

NestedSpec == Init /\ [][NestedNext]_vars

\* Two requests, the first asking for up to MaxStreamTokens tokens.
StreamNext ==
    \/ Loader
    \/ Handler(1, GateTexts, MaxStreamTokens)
    \/ Handler(2, GateTexts, MaxTokens)

StreamSpec == Init /\ [][StreamNext]_vars

\* The log buffer from empty, past its capacity.
LogBoundNext ==
    \/ Loader
    \/ LogCall(MaxAppends)

LogBoundSpec == Init /\ [][LogBoundNext]_vars

\* The states /logs/stream is explored from: the server just started (an
\* empty buffer, the load not begun), or the model loaded and the buffer
\* holding BACKLOG or LOG_CAP lines.
LogFills == {0, BACKLOG, LOG_CAP}

FilledLog(k) ==
    [i \in 1 .. k |->
        Line(i, IF i = 1 THEN "loading"
                ELSE IF i = 2 THEN "loaded"
                ELSE IF i = 3 THEN "loading_time"
                ELSE "line")]

InitLogs ==
    \E k \in LogFills :
        /\ ready = (k > 0)
        /\ lpc = IF k > 0 THEN "done" ELSE "init"
        /\ processing = FALSE
        /\ tokens_generated = 0
        /\ tokens_generated_total = 0
        /\ generation_start_time = "None"
        /\ log_messages = FilledLog(k)
        /\ log_total = k
        /\ log_calls = 0
        /\ req = [r \in Reqs |-> InitReq]
        /\ running = NoTask
        /\ snapshot = NoSnapshot
        /\ log_websockets = <<>>
        /\ sub = [s \in Subs |-> InitSub]
        /\ bpass = NoPass
        /\ metrics_websockets = <<>>
        /\ msub = [m \in MSubs |-> InitMSub]
        /\ sampling = NoSampling
        /\ engine = InitEngine

\* The loader, the /logs/stream subscribers, and other tasks logging.
LogsNext ==
    \/ Loader
    \/ PassSend
    \/ \E s \in Subs :
          \/ \E alive \in BOOLEAN : SubConnect(s, alive)
          \/ SubGreetingFails(s)
          \/ SubBacklog(s)
          \/ SubSend(s)
          \/ SubPoll(s)
          \/ SubDrop(s)
    \/ LogCall(MaxLive)

LogsSpec == InitLogs /\ [][LogsNext]_vars

\* What the event loop does for a /logs/stream handler whatever else happens:
\* it resumes the handler when its send or its sleep is over.
SubStep(s) ==
    \/ SubGreetingFails(s)
    \/ SubBacklog(s)
    \/ SubSend(s)
    \/ SubPoll(s)

\* LogsSpec with the event loop running every task that can run: a broadcast
\* pass under way is carried through and every subscriber handler is resumed.
LogsFairSpec ==
    /\ InitLogs
    /\ [][LogsNext]_vars
    /\ WF_vars(PassSend \/ PassEnd)
    /\ \A s \in Subs : WF_vars(SubStep(s))

\* The registry of log subscribers under a broadcast pass: one subscriber
\* more than in LogsSpec, and only the loader logging.
PassSubs == 1 .. NumSubs + 1

InitRegistry ==
    /\ ready = FALSE
    /\ lpc = "init"
    /\ processing = FALSE
    /\ tokens_generated = 0
    /\ tokens_generated_total = 0
    /\ generation_start_time = "None"
    /\ log_messages = <<>>
    /\ log_total = 0
    /\ log_calls = 0
    /\ req = [r \in Reqs |-> InitReq]
    /\ running = NoTask
    /\ snapshot = NoSnapshot
    /\ log_websockets = <<>>
    /\ sub = [s \in PassSubs |-> InitSub]
    /\ bpass = NoPass
    /\ metrics_websockets = <<>>
    /\ msub = [m \in MSubs |-> InitMSub]
    /\ sampling = NoSampling
    /\ engine = InitEngine

RegistryNext ==
    \/ Loader
    \/ PassSend
    \/ \E s \in PassSubs :
          \/ \E alive \in BOOLEAN : SubConnect(s, alive)
          \/ SubGreetingFails(s)
          \/ SubBacklog(s)
          \/ SubSend(s)
          \/ SubPoll(s)
          \/ SubDrop(s)

RegistrySpec == InitRegistry /\ [][RegistryNext]_vars

\* The loader and the /metrics/stream subscribers.
MetricsNext ==
    \/ Loader
    \/ \E m \in MSubs :
          \/ \E alive \in BOOLEAN, elapsed \in 0 .. MaxElapsed, fails \in BOOLEAN :
                 MConnect(m, alive, elapsed, fails)
          \/ MInitialSent(m)
          \/ \E elapsed \in 0 .. MaxElapsed, fails \in BOOLEAN : MWake(m, elapsed, fails)
          \/ MSendDone(m)
          \/ MDrop(m)

MetricsSpec == Init /\ [][MetricsNext]_vars

\* One generation whose token limit may be negative or 0, the backend
\* yielding one ordinary id or the end-of-sequence id and the tokenizer one
\* text, so that a run of BACKEND_DEFAULT steps is explored.
LimitNext ==
    \/ Loader
    \/ \E ep \in Endpoints : Arrive(1, ep)
    \/ \E kind \in BodyKinds(req[1].ep), mt \in -1 .. MaxTokens :
           BodyRead(1, kind, mt, <<>>)
    \/ \E fails \in BOOLEAN : GenStart(1, fails)
    \/ LoopEnd(1)
    \/ BackendRaise(1)
    \/ \E tok \in {0, eos_token_id} :
           BackendToken(1, tok, [ok |-> TRUE, text |-> <<"a">>])
    \/ SendDone(1)
    \/ Disconnect(1)

LimitSpec == Init /\ [][LimitNext]_vars

\* One generation with the decoder's texts, while metrics snapshots are taken
\* and other tasks append log lines.
OrderNext ==
    \/ DecoderNext
    \/ \E fails \in BOOLEAN : Metrics(MaxElapsed, fails)
    \/ LogCall(MaxLive)

OrderSpec == Init /\ [][OrderNext]_vars

\* A request with any of the sampling fields, read on any of the three paths.
InitSampling ==
    /\ ready = FALSE
    /\ lpc = "init"
    /\ processing = FALSE
    /\ tokens_generated = 0
    /\ tokens_generated_total = 0
    /\ generation_start_time = "None"
    /\ log_messages = <<>>
    /\ log_total = 0
    /\ log_calls = 0
    /\ req = [r \in Reqs |-> InitReq]
    /\ running = NoTask
    /\ snapshot = NoSnapshot
    /\ log_websockets = <<>>
    /\ sub = [s \in Subs |-> InitSub]
    /\ bpass = NoPass
    /\ metrics_websockets = <<>>
    /\ msub = [m \in MSubs |-> InitMSub]
    /\ sampling \in {[NoSampling EXCEPT !.pc = "new", !.path = p, !.fields = f] :
                         p \in Paths, f \in [SamplingFields -> FieldValues]}
    /\ engine = InitEngine

SamplingNext ==
    \/ ServerRead
    \/ EngineRead
    \/ InferenceRead

SamplingSpec == InitSampling /\ [][SamplingNext]_vars

\* The engine process alone, reading up to MaxLines lines.
EngineNext ==
    \/ ELoadOk
    \/ ELoadFail
    \/ \E kind \in LineKinds, empty, unsupported \in BOOLEAN,
          mt \in 0 .. MaxEngineTokens :
           ReadLine(kind, empty, unsupported, mt)
    \/ Eof
    \/ GenLimit
    \/ GenStopIteration
    \/ \E tok \in TokenIds : GenToken(tok)
    \/ GenRaise
    \/ GenImportError
    \/ FallbackToken
    \/ FallbackDone
    \/ FallbackRaise

EngineSpec == Init /\ [][EngineNext]_vars

(***************************************************************************)
(* Properties                                                              *)
(***************************************************************************)
IsTerminal(e) == e.type \in {"done", "stop", "error"}

\* the concatenation of the deltas of the token events of a stream
RECURSIVE Deltas(_)
Deltas(events) ==
    IF events = <<>> THEN <<>>
    ELSE (IF Head(events).type = "token" THEN Head(events).text ELSE <<>>)
             \o Deltas(Tail(events))

NoRepeat(list) ==
    \A i, j \in 1 .. Len(list) : i < j => list[i] # list[j]

Ids(lines) == [i \in 1 .. Len(lines) |-> lines[i].id]

\* C1: at most one generation token loop is active at any time, whatever the
\* interleaving of the requests, including two requests that both pass the
\* gate check before either has set processing.
C1_SingleTokenLoop ==
    Cardinality({r \in Reqs : InTokenLoop(r)}) <= 1

\* C2: a request whose handler reads the gate while processing is true is
\* rejected as busy and triggers no generation: it is never admitted, no
\* backend step runs for it and nothing is streamed to it.
C2_BusyRejected ==
    \A r \in Reqs :
        req[r].saw_processing =>
            /\ req[r].status = "busy"
            /\ req[r].pc = "closed"
            /\ ~req[r].admitted
            /\ req[r].steps = 0
            /\ req[r].accumulated_tokens = <<>>
            /\ req[r].events = <<>>

\* C2 witness: a /chat/ws request has been rejected as busy while
\* another request's generation was in its token loop.
C2_Witness ==
    \E r, q \in Reqs :
        /\ r # q
        /\ req[r].saw_processing /\ req[r].status = "busy" /\ req[r].ep = "ws"
        /\ InTokenLoop(q)

\* C3: prefix-safety: when a stream has delivered all its token events, the
\* concatenation of its deltas is the stripped decode of the complete
\* accumulated sequence.
C3_PrefixSafety ==
    \A r \in Reqs :
        (req[r].pc = "y_done" /\ req[r].decode_ok) =>
            Deltas(req[r].events) = req[r].last_decode

\* C4: the stream of an admitted generation is token events followed by one
\* terminal event: never two terminal events, never a token event after a
\* terminal event, and a stream that completed or failed ends with one.
C4_OneTerminal ==
    \A r \in Reqs :
        LET ev == req[r].events
        IN  req[r].admitted =>
              /\ Cardinality({i \in 1 .. Len(ev) : IsTerminal(ev[i])}) <= 1
              /\ \A i \in 1 .. Len(ev) : IsTerminal(ev[i]) => i = Len(ev)
              /\ req[r].status \in {"completed", "error"} =>
                     (ev # <<>> /\ IsTerminal(ev[Len(ev)]))

\* C5: every admitted generation ends with its handler returned and
\* processing false, whether the loop completes, raises, or the client
\* disconnects mid-stream.
C5_Released ==
    \A r \in Reqs :
        (req[r].admitted /\ req[r].pc # "closed")
            ~> (req[r].pc = "closed" /\ ~processing)

\* C5 witness: a generation whose client disconnected mid-stream has
\* returned and processing is false.
C5_Witness ==
    \E r \in Reqs :
        /\ req[r].admitted /\ req[r].pc = "closed"
        /\ req[r].status = "disconnected"
        /\ req[r].events # <<>>
        /\ ~processing

\* C6: no gaps: once a connected subscriber is asleep with nothing left to
\* poll and no broadcast pass is under way, it has received every line
\* appended since its backlog loop ended.
C6_NoGaps ==
    \A s \in Subs :
        (/\ sub[s].pc = "sleep"
         /\ sub[s].connected
         /\ sub[s].last_index >= Len(log_messages)
         /\ ~LoaderInPass)
            => \A n \in (sub[s].live_from + 1) .. log_total :
                   InList(sub[s].received, n)

\* C7: no duplicates: a subscriber never receives the same log line twice.
C7_NoDuplicates ==
    \A s \in Subs : NoRepeat(sub[s].received)

\* C8: subscriber backlog: a connected subscriber that is past its backlog
\* loop received, right after the greeting and before any other line, exactly
\* the most recent min(k, 100) lines the buffer held when it connected.
C8_Backlog ==
    \A s \in Subs :
        (sub[s].pc \in {"sleep", "live"} /\ sub[s].connected) =>
            LET bk == Ids(LastN(sub[s].at_connect, BACKLOG))
                got == sub[s].received
            IN  /\ Len(got) >= 1 + Len(bk)
                /\ SubSeq(got, 2, 1 + Len(bk)) = bk
                /\ \A i \in (2 + Len(bk)) .. Len(got) :
                       got[i] > (IF bk = <<>> THEN 0 ELSE bk[Len(bk)])

\* C9: log bound: after n appends the buffer holds exactly the most recent
\* min(n, 1000) lines in append order, so its length never exceeds 1000 and
\* the 1001st append evicts the oldest line.
C9_LogBound ==
    LET k == IF log_total < LOG_CAP THEN log_total ELSE LOG_CAP
    IN  /\ Len(log_messages) = k
        /\ \A i \in 1 .. k : log_messages[i].id = log_total - k + i

\* C9 witness: 1001 lines were appended and the buffer holds lines 2..1001.
C9_Witness ==
    /\ log_total = LOG_CAP + 1
    /\ Len(log_messages) = LOG_CAP
    /\ log_messages[1].id = 2
    /\ log_messages[LOG_CAP].id = LOG_CAP + 1

\* C10: idle throughput: every metrics snapshot computed while processing is
\* false reports tps 0.
C10_IdleTps ==
    (snapshot.taken /\ ~snapshot.processing) => snapshot.tps = ZeroTps

\* the body of r's request arrives with a missing or empty prompt
EmptyPromptRead(r) ==
    \E mt \in 0 .. MaxTokens, st \in StopChoices :
        BodyRead(r, "empty_prompt", mt, st)

\* C11: a POST /chat or /completion with a missing or empty prompt, read while
\* the server is ready and idle, is answered 400 and no backend step runs.
C11_EmptyPrompt400 ==
    [][\A r \in Reqs :
          (IsSSE(req[r].ep) /\ ready /\ ~processing /\ EmptyPromptRead(r)) =>
              /\ req'[r].status = "400"
              /\ req'[r].steps = 0
              /\ ~req'[r].admitted]_vars

\* C12: rejecting an empty-prompt request changes neither ready, processing
\* nor the token counters, also when another generation was admitted while
\* the rejected request's body was being read.
C12_EmptyPromptFrame ==
    [][\A r \in Reqs :
          EmptyPromptRead(r) => UNCHANGED <<ready, processing, counterVars>>]_vars

\* C13: a request rejected as loading or busy leaves ready, processing, the
\* counters and the request queue as they were, and is not run later: its
\* handler has returned and nothing happens on its behalf afterwards.
C13_BusyFrame ==
    [][\A r \in Reqs :
          /\ (req[r].pc = "new" /\ req'[r].status \in {"loading", "busy"}) =>
                 /\ UNCHANGED <<ready, processing, counterVars, logVars>>
                 /\ Len(request_queue) = 0
                 /\ req'[r].pc = "closed"
                 /\ ~req'[r].admitted
          /\ req[r].status \in {"loading", "busy"} => req'[r] = req[r]]_vars

\* C13 witness: a request was rejected as busy while a generation that has
\* counted a token holds the gate, and its handler has returned.
C13_Witness ==
    \E r, q \in Reqs :
        /\ r # q
        /\ req[r].status = "busy" /\ req[r].pc = "closed"
        /\ req[q].admitted /\ req[q].pc = "y_done"
        /\ processing /\ tokens_generated > 0

\* C14: on /completion with stop list [StopString], once the text streamed
\* so far contains the stop string the handler sends nothing but the event
\* {stop, stop_reason "stop"}: no further token event and no other terminal
\* event, however the tokens that spell the stop string are cut.
C14_StopString ==
    \A r \in Reqs :
        LET q == req[r]
        IN  (/\ q.ep = "completion"
             /\ q.stop_tokens = {0}
             /\ Contains(Deltas(q.events), StopString)
             /\ \A i \in 1 .. Len(q.events) : ~IsTerminal(q.events[i]))
                => q.out \in {NoEvent, StopEv("stop")}

\* C15: while ready is false every generation request is rejected as loading
\* and none is admitted: ready holds exactly when the load has succeeded, a
\* request answered otherwise than loading arrived after that, and processing
\* or a running token loop implies a successful load.
C15_NotReadyRejects ==
    /\ ready <=> LoadSucceeded
    /\ processing => LoadSucceeded
    /\ \A r \in Reqs :
         /\ (req[r].pc # "new" /\ req[r].status # "loading") => LoadSucceeded
         /\ (req[r].admitted \/ InTokenLoop(r)) => LoadSucceeded
         /\ req[r].status = "loading" =>
                (req[r].pc = "closed" /\ ~req[r].admitted /\ req[r].events = <<>>)

\* C15 witness: a /chat/ws request was rejected as loading while the load is
\* still running.
C15_Witness ==
    \E r \in Reqs :
        /\ req[r].ep = "ws" /\ req[r].status = "loading"
        /\ lpc = "waiting" /\ ~ready

ErrorsIn(events) == {i \in 1 .. Len(events) : events[i].type = "error"}

\* C17: a failure inside the token loop of an admitted generation whose client
\* is connected puts exactly one error event on that stream, as its last
\* event, and on no other stream; when it is delivered processing is false
\* and the gate lets a new generation pass.
C17_ErrorEvent ==
    /\ [](\A r \in Reqs :
             LET ev == req[r].events
             IN  /\ Cardinality(ErrorsIn(ev)) <= 1
                 /\ \A i \in ErrorsIn(ev) : i = Len(ev)
                 /\ req[r].status = "error" =>
                        (req[r].pc = "closed" /\ Cardinality(ErrorsIn(ev)) = 1))
    /\ [][\A r \in Reqs :
             /\ BackendRaise(r) => (req'[r].pc = "y_err" /\ req'[r].out = ErrorEv)
             /\ (req[r].pc = "y_err" /\ req'[r].status = "error") =>
                    /\ req'[r].events = Append(req[r].events, ErrorEv)
                    /\ ~processing'
                    /\ GateCheck(ready', processing') = "pass"
                    /\ \A q \in Reqs \ {r} : req'[q] = req[q]]_vars

\* C17 witness: the first stream ended with a token event and then the error
\* event, processing is false, and a second stream that is still open has
\* no error event.
C17_Witness ==
    /\ req[1].status = "error"
    /\ Len(req[1].events) = 2 /\ req[1].events[1].type = "token"
    /\ ~processing
    /\ req[2].pc = "y_done" /\ req[2].events # <<>> /\ ErrorsIn(req[2].events) = {}

\* C18: when the client is gone mid-stream the handler stops without a
\* further event on that stream, the gate is released, and the failure is
\* not logged as a generation failure.
C18_SilentAbort ==
    [][\A r \in Reqs :
          (req[r].pc \in {"y_tok", "y_stop", "y_done"}
              /\ req'[r].status = "disconnected") =>
                 /\ req'[r].events = req[r].events
                 /\ ~processing'
                 /\ \A i \in 1 .. Len(log_messages') :
                        log_messages'[i].id > log_total =>
                            log_messages'[i].text # "failed"]_vars

\* C19: when tokenizer.decode raises, the step yields no event, keeps
\* previous_full_text, counts the token and stays in the loop, with no error
\* event pending.
C19_DecodeError ==
    [][\A r \in Reqs : \A tok \in TokenIds :
          (/\ tok # eos_token_id
           /\ ~(req[r].ep = "completion" /\ tok \in req[r].stop_tokens)
           /\ BackendToken(r, tok, [ok |-> FALSE, text |-> <<>>])) =>
               /\ req'[r].previous_full_text = req[r].previous_full_text
               /\ req'[r].events = req[r].events
               /\ req'[r].out = NoEvent
               /\ req'[r].pc = "loop"
               /\ req'[r].token_count = req[r].token_count + 1]_vars

\* C19 witness: a stream delivered a token, the decode of the longer sequence
\* raised, and the loop then ended with its normal completion signal.
C19_Witness ==
    \E r \in Reqs :
        /\ ~req[r].decode_ok
        /\ Len(req[r].accumulated_tokens) >= 2
        /\ req[r].previous_full_text # <<>>
        /\ req[r].events # <<>>
        /\ req[r].pc = "y_done" /\ req[r].out = DoneEv

\* how often x occurs in list
Count(list, x) == Cardinality({i \in 1 .. Len(list) : list[i] = x})

\* C20: in a broadcast pass no subscriber that was registered when the pass
\* began and still is registered is passed over by the iteration without a
\* send, and none is sent the line twice, whatever other tasks add to or
\* remove from the registry while the pass is suspended.
C20_PassIntegrity ==
    LoaderInPass =>
        /\ \A i \in 1 .. Len(log_websockets) :
               (i <= bpass.idx /\ InList(bpass.at_start, log_websockets[i]))
                   => InList(bpass.tried, log_websockets[i])
        /\ \A s \in PassSubs : Count(bpass.tried, s) <= 1

\* C21: a /logs/stream subscriber whose send raised in the handler's backlog
\* or live loop is eventually off the registry with its handler returned,
\* with no broadcast pass needed for it.
C21_FailedSendRemoved ==
    \A s \in Subs :
        sub[s].send_failed ~> (sub[s].pc = "closed" /\ ~InList(log_websockets, s))

\* C22: a /metrics/stream subscriber is on the metrics registry, once, from
\* its connect until a periodic send to it fails, and is off it afterwards;
\* while it sleeps it has been delivered one snapshot for each wake-up; the
\* failure of one subscriber removes that socket only and changes no other
\* subscriber.
C22_MetricsLifecycle ==
    /\ [](\A m \in MSubs :
             /\ msub[m].pc \in {"initial", "sleep", "sending"} =>
                    InList(metrics_websockets, m)
             /\ msub[m].pc = "closed" => ~InList(metrics_websockets, m)
             /\ Count(metrics_websockets, m) <= 1
             /\ msub[m].pc = "sleep" => msub[m].pushed = msub[m].wakeups
             /\ msub[m].pc = "sending" => msub[m].pushed = msub[m].wakeups - 1)
    /\ [][\A m \in MSubs :
             (msub[m].pc = "sending" /\ msub'[m].pc = "closed") =>
                 /\ ~msub[m].connected
                 /\ metrics_websockets' = RemoveFirst(metrics_websockets, m)
                 /\ \A n \in MSubs \ {m} :
                        /\ msub'[n] = msub[n]
                        /\ InList(metrics_websockets, n) =>
                               InList(metrics_websockets', n)]_vars

\* C22 witness: the first subscriber's send failed after one delivered
\* snapshot and it is off the registry, while the second is still on it and
\* has been delivered a snapshot at every wake-up.
C22_Witness ==
    /\ msub[1].pc = "closed" /\ msub[1].pushed = 1 /\ msub[1].wakeups = 2
    /\ msub[2].pc = "sleep" /\ msub[2].pushed = MaxWakeups
    /\ msub[2].last.taken
    /\ metrics_websockets = <<2>>

\* the generations in flight: admitted and not yet returned
InFlight == {r \in Reqs : req[r].admitted /\ req[r].pc # "closed"}

\* C23: whenever processing is true exactly one generation is in flight,
\* counting from the moment its handler sets processing, also when two
\* requests overlap and after one of them has finished.
C23_OneStream ==
    processing => Cardinality(InFlight) = 1

\* C24: whenever a generation releases the gate (completed, failed or the
\* client gone) tokens_generated is 0 and generation_start_time is unset in
\* the resulting state.
C24_ReleaseResets ==
    [][\A r \in Reqs :
          (r \in InFlight /\ req'[r].pc = "closed") =>
              /\ ~processing'
              /\ tokens_generated' = 0
              /\ generation_start_time' = "None"]_vars

\* C25: a request that carries any of the unsupported sampling fields is
\* accepted, none of the fields reaches the generation (it runs as for the
\* request without them), and a warning is emitted for the request.
C25_UnsupportedWarned ==
    (sampling.pc = "read" /\ sampling.fields # NoFields) =>
        /\ sampling.outcome = "accepted"
        /\ sampling.top_k \in {"unused", "default"}
        /\ sampling.warned # {}

\* C26: when the backend yields the end-of-sequence id the token loop ends in
\* that step: the id is not appended to accumulated_tokens, nothing is
\* decoded, no token is counted and no token event is sent for it.
C26_EosBeforeDecode ==
    [][\A r \in Reqs : \A dec \in DecodeOutcomes(DecoderTexts) :
          BackendToken(r, eos_token_id, dec) =>
              /\ req'[r].accumulated_tokens = req[r].accumulated_tokens
              /\ req'[r].last_decode = req[r].last_decode
              /\ req'[r].previous_full_text = req[r].previous_full_text
              /\ req'[r].token_count = req[r].token_count
              /\ req'[r].pc \in {"y_done", "y_stop"}
              /\ req'[r].out.type \in {"done", "stop"}
              /\ req'[r].events = req[r].events]_vars

\* C26 witness: a /chat/ws stream delivered a token, the second backend step
\* yielded the end-of-sequence id with tokens still allowed, and the
\* completion signal is being sent with one id accumulated.
C26_Witness ==
    \E r \in Reqs :
        /\ req[r].ep = "ws" /\ req[r].pc = "y_done"
        /\ req[r].steps = 2 /\ req[r].accumulated_tokens # <<>>
        /\ Len(req[r].accumulated_tokens) = 1
        /\ req[r].token_count = 1 /\ req[r].max_tokens > 1
        /\ Len(req[r].events) = 1 /\ req[r].events[1].type = "token"

\* C27: a backend step that yields a token and is followed by another turn
\* of the token loop is followed first by a suspension of the handler, at
\* which the other tasks can run, also when the token's delta is empty.
C27_YieldBetweenTokens ==
    [][\A r \in Reqs :
          (/\ req'[r].steps = req[r].steps + 1
           /\ req'[r].pc = "loop"
           /\ LoopCond(r)' /\ req'[r].steps < BackendLimit(r)')
              => running' = NoTask]_vars

\* C28: a decoder step whose stripped decode does not extend
\* previous_full_text has an empty delta, sends nothing and leaves
\* previous_full_text alone; previous_full_text changes only in a step with
\* a non-empty delta, and then to the current decode, of which the delta is
\* the part past the old previous_full_text, so no text sent before is sent
\* again.
C28_NoReEmit ==
    [][\A r \in Reqs : \A tok \in TokenIds : \A dec \in DecodeOutcomes(DecoderTexts) :
          (dec.ok /\ BackendToken(r, tok, dec) /\ req'[r].steps = req[r].steps + 1
             /\ Len(req'[r].accumulated_tokens) > Len(req[r].accumulated_tokens)) =>
              LET prev == req[r].previous_full_text
                  cur == StripSpecial(dec.text)
                  emits == req'[r].out.type = "token"
              IN  /\ (prev # <<>> /\ ~StartsWith(cur, prev)) =>
                         (~emits /\ req'[r].previous_full_text = prev)
                  /\ ~emits => req'[r].previous_full_text = prev
                  /\ req'[r].previous_full_text # prev => emits
                  /\ emits =>
                         /\ req'[r].out.text # <<>>
                         /\ req'[r].previous_full_text = cur
                         /\ StartsWith(cur, prev)
                         /\ req'[r].out.text =
                                StripSpecial(SubSeq(cur, Len(prev) + 1, Len(cur)))]_vars

\* C28 witness: a stream sent a first delta, then a step decoded to a text
\* that does not extend it and sent nothing, and previous_full_text is still
\* the text sent.
C28_Witness ==
    \E r \in Reqs :
        /\ req[r].pc = "loop" /\ req[r].decode_ok
        /\ Len(req[r].accumulated_tokens) = 2
        /\ Len(req[r].events) = 1 /\ req[r].events[1].type = "token"
        /\ req[r].previous_full_text = req[r].events[1].text
        /\ ~StartsWith(req[r].last_decode, req[r].previous_full_text)

\* C29: every token a generation counts, on any of the three endpoints, adds
\* one to tokens_generated_total, which a metrics snapshot taken then reports
\* as predictedTotal, and leaves tokens_generated equal to the number of
\* tokens that generation has processed.
C29_TokenCounters ==
    [][\A r \in Reqs :
          req'[r].token_count = req[r].token_count + 1 =>
              /\ tokens_generated_total' = tokens_generated_total + 1
              /\ MakeSnapshot(0, FALSE)'.predictedTotal =
                     MakeSnapshot(0, FALSE).predictedTotal + 1
              /\ tokens_generated' = req'[r].token_count]_vars

\* the lines of the log whose text reports a generation failure
FailedLines == {i \in 1 .. Len(log_messages) : log_messages[i].text = "failed"}

\* C30: the step in which the token loop of a generation fails appends the
\* error line to the log buffer before the error event is sent, and the line
\* stays there whether the event is then delivered or the client is gone.
C30_ErrorLogged ==
    /\ [][\A r \in Reqs :
             BackendRaise(r) =>
                 /\ Len(log_messages') = Len(log_messages) + 2
                 /\ log_messages'[Len(log_messages) + 1].text = "failed"
                 /\ log_messages'[Len(log_messages) + 2].text = "traceback"]_vars
    /\ [](\A r \in Reqs : req[r].pc = "y_err" => FailedLines # {})
    /\ [][\A r \in Reqs :
             (req[r].pc = "y_err" /\ req'[r].pc = "closed") =>
                 \A i \in FailedLines : i \in FailedLines']_vars

\* C30 witness: the backend raised in a step of the token loop of a
\* /chat/ws generation, the error event is not delivered yet, and the last
\* two lines of the log are the failure and its traceback.
C30_Witness ==
    \E r \in Reqs :
        /\ req[r].pc = "y_err" /\ req[r].steps = 1 /\ req[r].ep = "ws"
        /\ req[r].events = <<>>
        /\ Cardinality(FailedLines) = 1
        /\ Len(log_messages) >= 2
        /\ log_messages[Len(log_messages) - 1].text = "failed"
        /\ log_messages[Len(log_messages)].text = "traceback"

\* C31: the last event of every /completion stream that completed without
\* an error carries stop_reason "stop" or "eos", whether the stream ended at
\* the token limit or on a stop or end-of-sequence token.
C31_StopReason ==
    \A r \in Reqs :
        (req[r].ep = "completion" /\ req[r].status = "completed") =>
            LET ev == req[r].events
            IN  /\ ev # <<>>
                /\ ev[Len(ev)].type = "stop"
                /\ ev[Len(ev)].reason \in {"stop", "eos"}

\* the texts of the token events of a stream, in order
RECURSIVE TokenTexts(_)
TokenTexts(events) ==
    IF events = <<>> THEN <<>>
    ELSE (IF Head(events).type = "token" THEN <<Head(events).text>> ELSE <<>>)
             \o TokenTexts(Tail(events))

\* C32: on each stream the token events delivered, followed by the one being
\* sent, are exactly the non-empty deltas the decoder produced, in order and
\* each once; a stream whose client went away lacks at most the delta that
\* was being sent.  Log appends and metrics snapshots do not change that.
C32_EventOrder ==
    \A r \in Reqs :
        LET sent == TokenTexts(req[r].events)
            made == req[r].produced
        IN  /\ req[r].pc = "y_tok" => sent \o <<req[r].out.text>> = made
            /\ (req[r].pc # "y_tok" /\ req[r].status # "disconnected") => sent = made
            /\ req[r].status = "disconnected" =>
                   /\ Len(sent) <= Len(made) /\ Len(made) <= Len(sent) + 1
                   /\ SubSeq(made, 1, Len(sent)) = sent

\* C32 witness: a stream has been delivered two different deltas in the
\* order they were produced, a log line was appended by another task and a
\* metrics snapshot was taken while the generation held the gate.
C32_Witness ==
    \E r \in Reqs :
        /\ Len(req[r].produced) = 2
        /\ req[r].produced[1] # req[r].produced[2]
        /\ TokenTexts(req[r].events) = req[r].produced
        /\ snapshot.taken /\ snapshot.processing
        /\ log_calls > 0

\* C33: the queueLength of every metrics snapshot, returned by /metrics or
\* pushed on /metrics/stream, is 0 or 1, however many requests are being
\* handled at once.
C33_QueueLength ==
    /\ Len(request_queue) \in {0, 1}
    /\ snapshot.queueLength \in {0, 1}
    /\ \A m \in MSubs :
           msub[m].out.queueLength \in {0, 1} /\ msub[m].last.queueLength \in {0, 1}

\* C33 witness: a snapshot was taken while two admitted generations were in
\* flight at once.
C33_Witness ==
    /\ snapshot.taken /\ snapshot.processing
    /\ snapshot.queueLength = 0
    /\ Cardinality(InFlight) = 2
    /\ \A r \in InFlight : req[r].pc \in {"y_tok", "y_done"}

\* C34: processing is cleared only by the end of the generation that set it:
\* while a generation is in its token loop processing is true, whatever other
\* requests are rejected, fail to parse, or finish meanwhile.
C34_LoopImpliesProcessing ==
    \A r \in Reqs : InTokenLoop(r) => processing

\* C35: at every step of a token loop the concatenation of the deltas sent
\* so far on the stream, the one being sent included, is previous_full_text,
\* and previous_full_text is empty or the stripped decode of a prefix of the
\* accumulated ids.
C35_DeltasArePrevious ==
    \A r \in Reqs :
        InTokenLoop(r) =>
            LET sent == Deltas(req[r].events) \o
                            (IF req[r].pc = "y_tok" THEN req[r].out.text ELSE <<>>)
            IN  /\ sent = req[r].previous_full_text
                /\ \/ req[r].previous_full_text = <<>>
                   \/ \E t \in NestedTexts :
                          req[r].previous_full_text = StripSpecial(t)

\* the token limit of r: max_tokens, on /completion n_predict, where a
\* negative n_predict leaves the backend's own limit
TokenLimit(r) ==
    IF req[r].max_tokens >= 0 THEN req[r].max_tokens
    ELSE IF req[r].ep = "completion" THEN BACKEND_DEFAULT
    ELSE 0

\* C36: a generation runs at most as many backend steps as its token limit
\* (none when the limit is 0, at most 256 on /completion with a negative
\* n_predict); every processed token is counted, empty delta or not, so the
\* token events never outnumber the limit; and at the limit the loop ends.
C36_BoundedLoop ==
    \A r \in Reqs :
        req[r].admitted /\ req[r].pc # "closed" =>
            /\ req[r].steps <= TokenLimit(r)
            /\ req[r].token_count <= req[r].steps
            /\ Len(req[r].accumulated_tokens) =
                   req[r].token_count + (IF req[r].pc = "y_tok" THEN 1 ELSE 0)
            /\ Len(req[r].produced) <= Len(req[r].accumulated_tokens)
            /\ Len(req[r].produced) <= TokenLimit(r)
            /\ (req[r].pc = "loop" /\ running = ReqTask(r)
                   /\ req[r].steps = TokenLimit(r)) =>
                   (ENABLED LoopEnd(r)
                      /\ ~ENABLED BackendToken(r, 0, [ok |-> TRUE, text |-> <<"a">>]))

\* C36 witness: a /completion generation with a negative n_predict ran
\* BACKEND_DEFAULT backend steps, counted as many tokens, and its loop ended.
C36_Witness ==
    /\ req[1].ep = "completion" /\ req[1].max_tokens < 0
    /\ req[1].steps = BACKEND_DEFAULT
    /\ req[1].token_count = BACKEND_DEFAULT
    /\ req[1].pc = "y_done"

StopNext ==
    \/ Loader
    \/ \E ep \in Endpoints : Arrive(1, ep)
    \/ \E kind \in BodyKinds(req[1].ep), mt \in 0 .. MaxDecodeTokens,
          st \in StopLists :
           BodyRead(1, kind, mt, st)
    \/ \E fails \in BOOLEAN : GenStart(1, fails)
    \/ LoopEnd(1)
    \/ BackendRaise(1)
    \/ \E tok \in TokenIds, dec \in DecodeOutcomes({<<"a">>}) :
           BackendToken(1, tok, dec)
    \/ SendDone(1)
    \/ Disconnect(1)

StopSpec == Init /\ [][StopNext]_vars

\* a generated id is the first id of the encoding of a non-empty string of
\* the stop list
FirstIdOfStop(stop, tok) ==
    \E i \in 1 .. Len(stop) :
        /\ stop[i] # <<>>
        /\ encode(stop[i]).ok
        /\ encode(stop[i]).ids[1] = tok

\* C38: on /completion a backend step sends the event with stop_reason
\* "stop" exactly when the token id is the first id of the encoding of some
\* non-empty stop string; that id is neither accumulated nor sent as a
\* token, and the check comes before the end-of-sequence check.
C38_StopToken ==
    [][\A r \in Reqs : \A tok \in TokenIds : \A dec \in DecodeOutcomes({<<"a">>}) :
          BackendToken(r, tok, dec) =>
              LET hit == /\ req[r].ep = "completion"
                         /\ FirstIdOfStop(req[r].stop, tok)
              IN  /\ (req'[r].out = StopEv("stop")) <=> hit
                  /\ hit =>
                         /\ req'[r].pc = "y_stop"
                         /\ req'[r].accumulated_tokens = req[r].accumulated_tokens
                         /\ req'[r].produced = req[r].produced
                         /\ req'[r].events = req[r].events
                         /\ req'[r].token_count = req[r].token_count]_vars

\* the status lines written for one request: zero or one warning, first, then
\* token lines, then one terminal line, done or error, as the last line
WellFormed(o) ==
    /\ Len(o) >= 1
    /\ o[Len(o)] \in {"done", "error"}
    /\ \A i \in 1 .. Len(o) - 1 :
           /\ o[i] \in {"warning", "token"}
           /\ o[i] = "warning" => i = 1

\* the engine is through with the i-th line it read
Served(i) == i < Len(engine.lines) \/ engine.pc \in {"read", "eof"}

\* C39: in the engine loop every non-blank line read after a successful load
\* gets exactly one terminal line, done or error, as the last line written for
\* it, after at most one warning and any number of token lines; a line being
\* served has no terminal line yet; a step that writes an error line returns
\* to reading, and once the load succeeded the process never exits on an
\* error.
C39_EngineLoop ==
    /\ [](\A i \in 1 .. Len(engine.lines) :
             engine.lines[i] # "blank" =>
                 IF Served(i) THEN WellFormed(engine.outs[i])
                 ELSE \A j \in 1 .. Len(engine.outs[i]) :
                          engine.outs[i][j] \in {"warning", "token"})
    /\ [](engine.pc = "exit" => engine.lines = <<>>)
    /\ [][(/\ engine'.outs # engine.outs
           /\ LET o == engine'.outs[Len(engine'.outs)]
              IN  o # <<>> /\ o[Len(o)] = "error")
              => engine'.pc = "read"]_vars
    /\ []((engine.pc = "read" /\ Len(engine.lines) < MaxLines) =>
              ENABLED ReadLine("request", FALSE, FALSE, 0))

\* C39 witness: two lines were read; the first, a request with an unsupported
\* field, failed after one token, and the second was then served with a
\* warning, a token and done.
C39_Witness ==
    /\ engine.pc = "read"
    /\ engine.lines = <<"request", "request">>
    /\ engine.outs = << <<"warning", "token", "error">>,
                        <<"warning", "token", "done">> >>

====
